---- MODULE Spec2Model ----
(***************************************************************************)
(* Ingestion pipeline of the pricing service: the scheduler that runs one *)
(* job per discovered scraper (app/scheduler.py, main.py), the repository  *)
(* operations the job calls (app/db/repository_*.py) and the relational    *)
(* store they write (app/models.py).                                       *)
(*                                                                         *)
(* The store is three tables of rows.  A commit is one storage transaction *)
(* and is atomic; the uniqueness constraints declared in app/models.py are *)
(* checked at commit and a violation raises (IntegrityError).  Every       *)
(* repository operation is split where the code splits it: a query, then a *)
(* commit, so that jobs running in parallel interleave between the two.    *)
(***************************************************************************)
EXTENDS Integers, Sequences, FiniteSets, TLC

VARIABLES
    providers,      \* rows of table "providers"
    models,         \* rows of table "models"
    offerings,      \* rows of table "provider_models", each with its modality rows
    run_on_startup, \* scraper_config.RUN_ON_STARTUP, read from the environment
    started,        \* scheduler.start() has been called
    now,            \* elapsed scheduling periods since scheduler start
    startupJobs,    \* units whose one-shot startup job is still in the job store
    nextRun,        \* per unit: next fire time of its interval job
    exec,           \* per scheduler job id: the run_job execution in progress
    call            \* the last serial repository call / job run and what it returned

store == <<providers, models, offerings>>
sched == <<run_on_startup, started, now, startupJobs, nextRun>>
vars == <<providers, models, offerings, run_on_startup, started, now, startupJobs, nextRun, exec, call>>

----------------------------------------------------------------------------
(* Bounds of the model *)

MaxBatchLen == 2        \* longest scrape result of the step-wise specifications
MaxIdemLen == 4         \* longest scrape result of the re-run specification
MaxPeriods == 1         \* interval periods that elapse

----------------------------------------------------------------------------
(* Values *)

Modality == {"text", "image", "audio", "video"}

None == "None"
NoRow == [id |-> 0]

Range(s) == {s[i] : i \in 1..Len(s)}

HasDuplicates(s) == \E i, j \in 1..Len(s) : i < j /\ s[i] = s[j]

MaxId(rows) ==
    IF rows = {} THEN 0
    ELSE CHOOSE n \in {r.id : r \in rows} : \A r \in rows : r.id <= n

\* integer primary key assigned by the store on insert
NextId(rows) == MaxId(rows) + 1

FirstRow(rows) ==
    IF rows = {} THEN NoRow
    ELSE CHOOSE r \in rows : \A q \in rows : r.id <= q.id

\* a ProviderModelSpec as a scraper returns it
ProviderModelSpec(pn, web, key, mn, api, cw, inp, outp, tools, mods) ==
    [provider_name |-> pn, provider_website |-> web, provider_api_key_name |-> key,
     model_name |-> mn, api_model_name |-> api, context_window |-> cw,
     input_cost_per_mtok |-> inp, output_cost_per_mtok |-> outp,
     supports_tools |-> tools, modalities |-> mods]

----------------------------------------------------------------------------
(* Table "providers" *)

\* variant: the column carries no unique constraint
ProviderNameTaken_unconstrained(ps, name) == FALSE

\* Provider.name is unique=True
ProviderNameTaken(ps, name) == \E p \in ps : p.name = name

get_provider_by_name(ps, name) == FirstRow({p \in ps : p.name = name})

create_provider(ps, name, website, api_key_name) ==
    IF ProviderNameTaken(ps, name)
    THEN [ok |-> FALSE, rows |-> ps, row |-> NoRow]
    ELSE LET db_provider == [id |-> NextId(ps), name |-> name,
                             website |-> website, api_key_name |-> api_key_name]
         IN [ok |-> TRUE, rows |-> ps \cup {db_provider}, row |-> db_provider]

\* variant: no lookup, the row is always created
get_or_create_provider_always_creates(ps, name, website, api_key_name) ==
    create_provider(ps, name, website, api_key_name)

\* variant: an existing row takes the website and key name of the call
get_or_create_provider_updates(ps, name, website, api_key_name) ==
    LET db_provider == get_provider_by_name(ps, name)
        updated == [db_provider EXCEPT !.website = website,
                                       !.api_key_name = api_key_name]
    IN IF db_provider.id # 0
       THEN [ok |-> TRUE, rows |-> (ps \ {db_provider}) \cup {updated}, row |-> updated]
       ELSE create_provider(ps, name, website, api_key_name)

get_or_create_provider(ps, name, website, api_key_name) ==
    LET db_provider == get_provider_by_name(ps, name)
    IN IF db_provider.id # 0
       THEN [ok |-> TRUE, rows |-> ps, row |-> db_provider]
       ELSE create_provider(ps, name, website, api_key_name)

----------------------------------------------------------------------------
(* Table "models" *)

\* Model.model_name is unique=True
ModelNameTaken(ms, model_name) == \E m \in ms : m.model_name = model_name

get_model_by_name(ms, name) == FirstRow({m \in ms : m.model_name = name})

create_model(ms, model_name) ==
    IF ModelNameTaken(ms, model_name)
    THEN [ok |-> FALSE, rows |-> ms, row |-> NoRow]
    ELSE LET db_model == [id |-> NextId(ms), model_name |-> model_name]
         IN [ok |-> TRUE, rows |-> ms \cup {db_model}, row |-> db_model]

get_or_create_model(ms, model_name) ==
    LET db_model == get_model_by_name(ms, model_name)
    IN IF db_model.id # 0
       THEN [ok |-> TRUE, rows |-> ms, row |-> db_model]
       ELSE create_model(ms, model_name)

----------------------------------------------------------------------------
(* Table "provider_models" with its child table "provider_model_modalities" *)

\* ProviderModel.api_model_name is unique=True
ApiNameTaken(os, api_model_name, id) ==
    \E o \in os : o.id # id /\ o.api_model_name = api_model_name

\* UniqueConstraint("provider_id", "model_id")
PairTaken(os, provider_id, model_id) ==
    \E o \in os : o.provider_id = provider_id /\ o.model_id = model_id

\* the query that opens add_model_to_provider; the row it loads carries the
\* modality rows that modalities_association.clear() loads
query_offering(os, provider_id, model_id) ==
    FirstRow({o \in os : o.provider_id = provider_id /\ o.model_id = model_id})

\* a column assigned on the loaded object reaches the UPDATE only when the
\* assigned value differs from the loaded one; otherwise the row keeps what
\* the store holds
\* variant: the assignment is lost
UpdatedColumn_lost(cur, loaded, new) == cur

UpdatedColumn(cur, loaded, new) == IF new # loaded THEN new ELSE cur

\* clear() deletes the modality rows that were loaded and are not assigned
\* again, the assignment inserts the ones that were not loaded
UpdatedModalities(cur, loaded, new) == (cur \ (loaded \ new)) \cup (new \ loaded)

\* db.commit() of the insert branch
insert_offering(os, provider_id, model_id, spec, is_active) ==
    IF \/ PairTaken(os, provider_id, model_id)
       \/ ApiNameTaken(os, spec.api_model_name, 0)
       \/ HasDuplicates(spec.modalities)
    THEN [ok |-> FALSE, rows |-> os, row |-> NoRow]
    ELSE LET db_offering ==
                [id |-> NextId(os), provider_id |-> provider_id, model_id |-> model_id,
                 api_model_name |-> spec.api_model_name,
                 context_window |-> spec.context_window,
                 input_cost_per_mtok |-> spec.input_cost_per_mtok,
                 output_cost_per_mtok |-> spec.output_cost_per_mtok,
                 supports_tools |-> spec.supports_tools,
                 is_active |-> is_active,
                 modalities |-> Range(spec.modalities)]
         IN [ok |-> TRUE, rows |-> os \cup {db_offering}, row |-> db_offering]

\* db.commit() of the update branch: loaded is the row as the query saw it
update_offering(os, loaded, spec, is_active) ==
    LET cur == CHOOSE o \in os : o.id = loaded.id
        new == Range(spec.modalities)
    IN IF \/ /\ spec.api_model_name # loaded.api_model_name
             /\ ApiNameTaken(os, spec.api_model_name, cur.id)
          \/ HasDuplicates(spec.modalities)
          \/ (new \ loaded.modalities) \cap cur.modalities # {}
       THEN [ok |-> FALSE, rows |-> os, row |-> NoRow]
       ELSE LET db_offering ==
                [id |-> cur.id, provider_id |-> cur.provider_id, model_id |-> cur.model_id,
                 api_model_name |->
                    UpdatedColumn(cur.api_model_name, loaded.api_model_name, spec.api_model_name),
                 context_window |->
                    UpdatedColumn(cur.context_window, loaded.context_window, spec.context_window),
                 input_cost_per_mtok |->
                    UpdatedColumn(cur.input_cost_per_mtok, loaded.input_cost_per_mtok,
                                  spec.input_cost_per_mtok),
                 output_cost_per_mtok |->
                    UpdatedColumn(cur.output_cost_per_mtok, loaded.output_cost_per_mtok,
                                  spec.output_cost_per_mtok),
                 supports_tools |->
                    UpdatedColumn(cur.supports_tools, loaded.supports_tools, spec.supports_tools),
                 is_active |-> UpdatedColumn(cur.is_active, loaded.is_active, is_active),
                 modalities |-> UpdatedModalities(cur.modalities, loaded.modalities, new)]
            IN [ok |-> TRUE, rows |-> (os \ {cur}) \cup {db_offering}, row |-> db_offering]

\* variant: an existing row is deleted and a new one inserted in its place
commit_offering_replaces(os, loaded, provider_id, model_id, spec, is_active) ==
    insert_offering({o \in os : o.id # loaded.id}, provider_id, model_id, spec, is_active)

commit_offering(os, loaded, provider_id, model_id, spec, is_active) ==
    IF loaded.id # 0
    THEN update_offering(os, loaded, spec, is_active)
    ELSE insert_offering(os, provider_id, model_id, spec, is_active)

\* variant: the update branch leaves is_active as the row has it
add_model_to_provider_keeps_active(os, provider_id, model_id, spec, is_active) ==
    LET db_offering == query_offering(os, provider_id, model_id)
    IN commit_offering(os, db_offering, provider_id, model_id, spec,
                       IF db_offering.id # 0 THEN db_offering.is_active ELSE is_active)

\* the whole call, nothing running in between
add_model_to_provider(os, provider_id, model_id, spec, is_active) ==
    commit_offering(os, query_offering(os, provider_id, model_id),
                    provider_id, model_id, spec, is_active)

----------------------------------------------------------------------------
(* run_job executed serially: the loop over the scraped specs, stopped by   *)
(* the first exception                                                      *)

RECURSIVE IngestFrom(_, _, _)
IngestFrom(st, scraped_data, i) ==
    IF i > Len(scraped_data) THEN [store |-> st, failedAt |-> 0]
    ELSE
      LET spec == scraped_data[i]
          provider == get_or_create_provider(st.providers, spec.provider_name,
                          spec.provider_website, spec.provider_api_key_name)
          model == get_or_create_model(st.models, spec.model_name)
          offering == add_model_to_provider(st.offerings, provider.row.id, model.row.id,
                          spec, TRUE)
      IN IF ~provider.ok THEN [store |-> st, failedAt |-> i]
         ELSE IF ~model.ok
           THEN [store |-> [st EXCEPT !.providers = provider.rows], failedAt |-> i]
         ELSE IF ~offering.ok
           THEN [store |-> [st EXCEPT !.providers = provider.rows, !.models = model.rows],
                 failedAt |-> i]
         ELSE IngestFrom([providers |-> provider.rows, models |-> model.rows,
                          offerings |-> offering.rows], scraped_data, i + 1)

\* variant: the whole batch in one transaction, rolled back on failure
run_job_one_transaction(st, scraped_data) ==
    LET r == IngestFrom(st, scraped_data, 1)
    IN IF r.failedAt = 0 THEN r ELSE [store |-> st, failedAt |-> r.failedAt]

\* variant: a spec that fails is skipped and the loop goes on
RECURSIVE IngestSkipping(_, _, _)
IngestSkipping(st, scraped_data, i) ==
    IF i > Len(scraped_data) THEN [store |-> st, failedAt |-> 0]
    ELSE IngestSkipping(IngestFrom(st, <<scraped_data[i]>>, 1).store, scraped_data, i + 1)

run_job_skips_failed(st, scraped_data) == IngestSkipping(st, scraped_data, 1)

run_job_serial(st, scraped_data) == IngestFrom(st, scraped_data, 1)

Store == [providers |-> providers, models |-> models, offerings |-> offerings]

----------------------------------------------------------------------------
(* Scrape results of the re-run specification: one provider, two models,    *)
(* three api names                                                          *)

IdemSpec(mn, api) ==
    ProviderModelSpec("P1", "p1.com", None, mn, api, 8000, 1, 2, FALSE, <<"text">>)

IdemSpecs == {IdemSpec("M1", "a"), IdemSpec("M1", "b"), IdemSpec("M1", "c"),
              IdemSpec("M2", "a")}

SeqsUpTo(S, n) == UNION {[1..k -> S] : k \in 0..n}

IdemBatches == SeqsUpTo(IdemSpecs, MaxIdemLen)

NoCall == [op |-> "none"]

----------------------------------------------------------------------------
(* The scheduler and its jobs *)

Units == {"U1", "U2"}    \* the scraper classes discover_scrapers() returns

\* schedule_jobs adds two jobs per scraper class, under two ids
startup_job(u) == <<"startup_job", u>>
interval_job(u) == <<"job", u>>
JobIds == {startup_job(u) : u \in Units} \cup {interval_job(u) : u \in Units}
UnitOf(j) == j[2]

\* db is the job's store session: "none" outside an execution, "open" from
\* SessionLocal() to db.close()
Idle == [pc |-> "idle", scraped_data |-> <<>>, i |-> 0, provider_id |-> 0,
         model_id |-> 0, loaded |-> NoRow, db |-> "none"]

\* run_job entered: session opened, scraper about to be built and run
Entered == [Idle EXCEPT !.pc = "scrape", !.db = "open"]

Running(j) == exec[j].pc # "idle"

SchedInit ==
    /\ run_on_startup \in BOOLEAN
    /\ started = FALSE
    /\ now = 0
    /\ startupJobs = {}
    /\ nextRun = [u \in Units |-> 0]
    /\ exec = [j \in JobIds |-> Idle]

StoreInit ==
    /\ providers = {}
    /\ models = {}
    /\ offerings = {}

\* the serial callers run under the default configuration
Init == StoreInit /\ SchedInit /\ run_on_startup = TRUE /\ call = NoCall

\* the application: any configuration, no serial caller
InitApp == StoreInit /\ SchedInit /\ call = NoCall

----------------------------------------------------------------------------
(* Serial callers: one call at a time, its result observed, then the next *)

\* run_job on a scrape result, no other job running
RunJob(scraped_data) ==
    /\ call.op = "none"
    /\ LET r == run_job_serial(Store, scraped_data)
       IN /\ providers' = r.store.providers
          /\ models' = r.store.models
          /\ offerings' = r.store.offerings
          /\ call' = [op |-> "run_job", scraped_data |-> scraped_data,
                      failedAt |-> r.failedAt, before |-> Store]
    /\ UNCHANGED <<sched, exec>>

\* run_job again on the same scrape result
RunJobAgain ==
    /\ call.op = "run_job"
    /\ LET r == run_job_serial(Store, call.scraped_data)
       IN /\ providers' = r.store.providers
          /\ models' = r.store.models
          /\ offerings' = r.store.offerings
          /\ call' = [op |-> "run_job_again", scraped_data |-> call.scraped_data,
                      failedAt |-> r.failedAt, once |-> Store]
    /\ UNCHANGED <<sched, exec>>

\* the caller drops the result and goes on
Return ==
    /\ call.op # "none"
    /\ call' = NoCall
    /\ UNCHANGED <<store, sched, exec>>

\* run_job when scraper.scrape() raises: nothing is ingested
RunJobScrapeRaises ==
    /\ call.op = "none"
    /\ call' = [op |-> "run_job", scraped_data |-> <<>>, failedAt |-> -1,
                before |-> Store]
    /\ UNCHANGED <<store, sched, exec>>

\* repository calls made directly, as the repository tests make them
GetOrCreateProviderCall(name, website, api_key_name) ==
    /\ call.op = "none"
    /\ LET r == get_or_create_provider(providers, name, website, api_key_name)
       IN /\ providers' = r.rows
          /\ call' = [op |-> "get_or_create_provider", name |-> name,
                      website |-> website, ok |-> r.ok, ret |-> r.row,
                      before |-> providers]
    /\ UNCHANGED <<models, offerings, sched, exec>>

GetOrCreateModelCall(model_name) ==
    /\ call.op = "none"
    /\ LET r == get_or_create_model(models, model_name)
       IN /\ models' = r.rows
          /\ call' = [op |-> "get_or_create_model", name |-> model_name,
                      ok |-> r.ok, ret |-> r.row, before |-> models]
    /\ UNCHANGED <<providers, offerings, sched, exec>>

AddModelToProviderCall(provider_id, model_id, fields, is_active) ==
    /\ call.op = "none"
    /\ LET r == add_model_to_provider(offerings, provider_id, model_id, fields, is_active)
       IN /\ offerings' = r.rows
          /\ call' = [op |-> "add_model_to_provider", provider_id |-> provider_id,
                      model_id |-> model_id, fields |-> fields, is_active |-> is_active,
                      ok |-> r.ok, ret |-> r.row, before |-> offerings]
    /\ UNCHANGED <<providers, models, sched, exec>>

\* the offering fields the calls carry: api name, context window, prices,
\* tools flag, modality list
OfferingFields(api, cw, inp, outp, tools, mods) ==
    [api_model_name |-> api, context_window |-> cw, input_cost_per_mtok |-> inp,
     output_cost_per_mtok |-> outp, supports_tools |-> tools, modalities |-> mods]

FieldsA == OfferingFields("a", 8000, 1, 2, FALSE, <<"text">>)
FieldsB == OfferingFields("b", 16000, 3, 6, TRUE, <<"text", "image">>)
FieldsC == OfferingFields("c", 16000, 1, 2, FALSE, <<"image">>)
FieldsD == OfferingFields("b", 8000, 3, 6, TRUE, <<"audio", "audio">>)

FieldSets == {FieldsA, FieldsB, FieldsC, FieldsD}

SpecOf(pn, web, mn, f) ==
    ProviderModelSpec(pn, web, None, mn, f.api_model_name, f.context_window,
                      f.input_cost_per_mtok, f.output_cost_per_mtok,
                      f.supports_tools, f.modalities)

IngestSpecs ==
    {SpecOf("P1", "p1.com", "M1", FieldsA), SpecOf("P1", "p1.org", "M1", FieldsB),
     SpecOf("P1", "p1.com", "M2", FieldsC), SpecOf("P1", "p1.com", "M1", FieldsC),
     SpecOf("P1", "p1.com", "M2", FieldsD), SpecOf("P1", "p1.org", "M2", FieldsA)}

IngestBatches == SeqsUpTo(IngestSpecs, MaxBatchLen)

ProviderArgs == {<<"P1", "p1.com">>, <<"P1", "p1.org">>}
ModelNames == {"M1", "M2"}

NextIngest ==
    \/ \E b \in IngestBatches : RunJob(b)
    \/ RunJobScrapeRaises
    \/ \E a \in ProviderArgs : GetOrCreateProviderCall(a[1], a[2], None)
    \/ \E n \in ModelNames : GetOrCreateModelCall(n)
    \/ \E p \in providers, m \in models, f \in FieldSets, act \in BOOLEAN :
          AddModelToProviderCall(p.id, m.id, f, act)
    \/ Return

SpecIngest == Init /\ [][NextIngest]_vars

Ids(rows) == {r.id : r \in rows}

\* the specs of a serial run_job that were ingested before it ended
Ingested(c) ==
    IF c.failedAt = 0 THEN 1..Len(c.scraped_data)
    ELSE IF c.failedAt = -1 THEN {}
    ELSE 1..(c.failedAt - 1)

\* C3: get_or_create_provider / get_or_create_model called with a name that
\* exists returns the existing row and creates none; after a job that follows
\* earlier ingestion, every name of its specs has exactly one Provider / Model
\* row, the row that existed before when there was one, and an Offering of
\* the spec's pair references those rows
C3_ConvergeByName ==
    /\ (call.op = "get_or_create_provider" /\ ProviderNameTaken(call.before, call.name))
          => /\ call.ok
             /\ providers = call.before
             /\ call.ret \in call.before
             /\ call.ret.name = call.name
    /\ (call.op = "get_or_create_model" /\ ModelNameTaken(call.before, call.name))
          => /\ call.ok
             /\ models = call.before
             /\ call.ret \in call.before
             /\ call.ret.model_name = call.name
    /\ call.op = "run_job" =>
          \A k \in Ingested(call) :
             LET spec == call.scraped_data[k]
                 ps == {p \in providers : p.name = spec.provider_name}
                 ms == {m \in models : m.model_name = spec.model_name}
             IN /\ Cardinality(ps) = 1
                /\ Cardinality(ms) = 1
                /\ \A p \in call.before.providers : p.name = spec.provider_name => p \in ps
                /\ \A m \in call.before.models : m.model_name = spec.model_name => m \in ms
                /\ \E o \in offerings : o.provider_id \in Ids(ps) /\ o.model_id \in Ids(ms)

\* a job whose two specs name a Provider and a Model that earlier ingestion
\* created, under Offerings that already existed
C3_Witness ==
    /\ call.op = "run_job"
    /\ call.failedAt = 0
    /\ Len(call.scraped_data) = 2
    /\ \A k \in 1..2 :
          /\ ProviderNameTaken(call.before.providers, call.scraped_data[k].provider_name)
          /\ ModelNameTaken(call.before.models, call.scraped_data[k].model_name)
    /\ call.before.offerings # {}

ExpectedOffering(id, provider_id, model_id, fields, is_active) ==
    [id |-> id, provider_id |-> provider_id, model_id |-> model_id,
     api_model_name |-> fields.api_model_name,
     context_window |-> fields.context_window,
     input_cost_per_mtok |-> fields.input_cost_per_mtok,
     output_cost_per_mtok |-> fields.output_cost_per_mtok,
     supports_tools |-> fields.supports_tools,
     is_active |-> is_active,
     modalities |-> Range(fields.modalities)]

\* C4: a call of add_model_to_provider that returns has inserted exactly one
\* row with all the given fields when the pair had no Offering, and otherwise
\* has overwritten every field of the pair's row, api_model_name included,
\* keeping its id and the number of rows
C4_UpsertByPair ==
    (call.op = "add_model_to_provider" /\ call.ok) =>
        LET prior == query_offering(call.before, call.provider_id, call.model_id)
        IN /\ call.ret = ExpectedOffering(call.ret.id, call.provider_id, call.model_id,
                                          call.fields, call.is_active)
           /\ IF prior.id = 0
              THEN /\ call.ret.id \notin Ids(call.before)
                   /\ offerings = call.before \cup {call.ret}
                   /\ Cardinality(offerings) = Cardinality(call.before) + 1
              ELSE /\ call.ret.id = prior.id
                   /\ offerings = (call.before \ {prior}) \cup {call.ret}
                   /\ Cardinality(offerings) = Cardinality(call.before)

\* an update that changes the api name, the context window and the modalities
C4_Witness ==
    /\ call.op = "add_model_to_provider"
    /\ call.ok
    /\ LET prior == query_offering(call.before, call.provider_id, call.model_id)
       IN /\ prior.id # 0
          /\ prior.api_model_name # call.fields.api_model_name
          /\ prior.context_window # call.fields.context_window
          /\ prior.modalities # Range(call.fields.modalities)
          /\ Cardinality(call.before) = 2

\* C6: ingestion never changes an existing Provider row; a Provider row that
\* a job created carries the website and key name of the first spec of the
\* job that names it
C6_ProviderFrozen ==
    /\ call.op = "get_or_create_provider" =>
          /\ call.before \subseteq providers
          /\ \A p \in providers \ call.before :
                p.name = call.name /\ p.website = call.website
    /\ call.op = "run_job" =>
          /\ call.before.providers \subseteq providers
          /\ \A p \in providers \ call.before.providers :
                \E k \in 1..Len(call.scraped_data) :
                   /\ call.scraped_data[k].provider_name = p.name
                   /\ call.scraped_data[k].provider_website = p.website
                   /\ call.scraped_data[k].provider_api_key_name = p.api_key_name
                   /\ \A h \in 1..(k - 1) : call.scraped_data[h].provider_name # p.name

\* a job that succeeded on a spec naming an existing Provider under another
\* website
C6_Witness ==
    /\ call.op = "run_job"
    /\ call.failedAt = 0
    /\ \E k \in 1..Len(call.scraped_data) : \E p \in call.before.providers :
          /\ p.name = call.scraped_data[k].provider_name
          /\ p.website # call.scraped_data[k].provider_website
          /\ p \in providers

\* C8 as claimed: a run_job execution that failed has changed no row
C8_FailedJobChangedNothing ==
    (call.op = "run_job" /\ call.failedAt # 0) => Store = call.before

\* C8 amended: a run_job execution that failed in extraction has changed no
\* row; one that failed on its k-th spec has committed exactly what specs
\* 1..k-1 write, and of the k-th spec only the Provider and Model rows that
\* get_or_create made before the failing Offering write
C8_FailedJobKeepsCommitted ==
    (call.op = "run_job" /\ call.failedAt # 0) =>
        IF call.failedAt = -1 THEN Store = call.before
        ELSE LET k == call.failedAt
                 spec == call.scraped_data[k]
                 pre == run_job_serial(call.before, SubSeq(call.scraped_data, 1, k - 1))
             IN /\ pre.failedAt = 0
                /\ offerings = pre.store.offerings
                /\ providers = get_or_create_provider(pre.store.providers,
                                   spec.provider_name, spec.provider_website,
                                   spec.provider_api_key_name).rows
                /\ models = get_or_create_model(pre.store.models, spec.model_name).rows

\* a job that failed on its second spec after writing an Offering for the first
C8_Witness ==
    /\ call.op = "run_job"
    /\ call.failedAt = 2
    /\ offerings # call.before.offerings

----------------------------------------------------------------------------
(* The application: lifespan starts the scheduler, the scheduler fires the  *)
(* jobs, each run_job execution runs in its own worker thread               *)

\* what the scrapers of the two units can return: both name Provider P1 and
\* Model M1, under different fields; the second unit also offers M2 under
\* the api name the first unit gives M1
ScrapeResults(u) ==
    IF u = "U1"
    THEN {<<SpecOf("P1", "p1.com", "M1", FieldsA)>>}
    ELSE {<<SpecOf("P1", "p1.org", "M1", FieldsB)>>,
          <<SpecOf("P1", "p1.org", "M2", FieldsA), SpecOf("P1", "p1.org", "M1", FieldsB)>>}

\* jobs whose fire time has come
DueJobs ==
    {startup_job(u) : u \in startupJobs}
        \cup {interval_job(u) : u \in {v \in Units : nextRun[v] <= now}}

\* variant: one job at a time over the whole scheduler
CanSubmit_serial(j) == \A k \in JobIds : ~Running(k)

\* add_job is called without max_instances: the scheduler runs at most one
\* instance of a job id at a time and skips a firing that finds one running
CanSubmit(j) == ~Running(j)

\* lifespan: schedule_jobs(scheduler), then scheduler.start()
Lifespan ==
    /\ ~started
    /\ started' = TRUE
    /\ startupJobs' = IF run_on_startup THEN Units ELSE {}
    /\ nextRun' = [u \in Units |-> now + 1]
    /\ UNCHANGED <<store, run_on_startup, now, exec, call>>

\* one scheduling period elapses
Tick ==
    /\ started
    /\ DueJobs = {}
    /\ now < MaxPeriods
    /\ now' = now + 1
    /\ UNCHANGED <<store, run_on_startup, started, startupJobs, nextRun, exec, call>>

\* variant: the startup jobs stay scheduled after they fire
ProcessJobs_keeps_startup ==
    /\ started
    /\ DueJobs # {}
    /\ exec' = [j \in JobIds |->
                  IF j \in DueJobs /\ CanSubmit(j) THEN Entered ELSE exec[j]]
    /\ startupJobs' = startupJobs
    /\ nextRun' = [u \in Units |-> IF nextRun[u] <= now THEN now + 1 ELSE nextRun[u]]
    /\ UNCHANGED <<store, run_on_startup, started, now, call>>

\* the scheduler wakes up and processes every due job: submits it unless an
\* instance of it is running, drops the one-shot startup jobs, moves the
\* interval jobs to their next fire time
ProcessJobs ==
    /\ started
    /\ DueJobs # {}
    /\ exec' = [j \in JobIds |->
                  IF j \in DueJobs /\ CanSubmit(j) THEN Entered ELSE exec[j]]
    /\ startupJobs' = {}
    /\ nextRun' = [u \in Units |-> IF nextRun[u] <= now THEN now + 1 ELSE nextRun[u]]
    /\ UNCHANGED <<store, run_on_startup, started, now, call>>

SetExec(j, e) == exec' = [exec EXCEPT ![j] = e]

CurSpec(j) == exec[j].scraped_data[exec[j].i]

\* scraper.scrape() returns
Scrape(j) ==
    /\ exec[j].pc = "scrape"
    /\ \E d \in ScrapeResults(UnitOf(j)) :
          SetExec(j, IF d = <<>>
                     THEN [exec[j] EXCEPT !.pc = "done"]
                     ELSE [exec[j] EXCEPT !.scraped_data = d, !.i = 1,
                                          !.pc = "get_provider"])
    /\ UNCHANGED <<store, sched, call>>

\* variant: the error escapes run_job and takes the scheduler down
ScrapeRaises_propagates(j) ==
    /\ exec[j].pc = "scrape"
    /\ exec' = [k \in JobIds |-> IF k = j THEN [exec[j] EXCEPT !.pc = "failed"] ELSE Idle]
    /\ startupJobs' = {}
    /\ nextRun' = [u \in Units |-> MaxPeriods + 1]
    /\ UNCHANGED <<store, run_on_startup, started, now, call>>

\* scraper.scrape() raises: caught by the except clause of run_job
ScrapeRaises(j) ==
    /\ exec[j].pc = "scrape"
    /\ SetExec(j, [exec[j] EXCEPT !.pc = "failed"])
    /\ UNCHANGED <<store, sched, call>>

\* get_or_create_provider: the lookup by name
GetProvider(j) ==
    /\ exec[j].pc = "get_provider"
    /\ LET db_provider == get_provider_by_name(providers, CurSpec(j).provider_name)
       IN SetExec(j, IF db_provider.id # 0
                     THEN [exec[j] EXCEPT !.provider_id = db_provider.id,
                                          !.pc = "get_model"]
                     ELSE [exec[j] EXCEPT !.pc = "create_provider"])
    /\ UNCHANGED <<store, sched, call>>

\* get_or_create_provider: create_provider and its commit
CreateProvider(j) ==
    /\ exec[j].pc = "create_provider"
    /\ LET r == create_provider(providers, CurSpec(j).provider_name,
                    CurSpec(j).provider_website, CurSpec(j).provider_api_key_name)
       IN /\ providers' = r.rows
          /\ SetExec(j, IF r.ok
                        THEN [exec[j] EXCEPT !.provider_id = r.row.id,
                                             !.pc = "get_model"]
                        ELSE [exec[j] EXCEPT !.pc = "failed"])
    /\ UNCHANGED <<models, offerings, sched, call>>

\* get_or_create_model: the lookup by name
GetModel(j) ==
    /\ exec[j].pc = "get_model"
    /\ LET db_model == get_model_by_name(models, CurSpec(j).model_name)
       IN SetExec(j, IF db_model.id # 0
                     THEN [exec[j] EXCEPT !.model_id = db_model.id,
                                          !.pc = "query_offering"]
                     ELSE [exec[j] EXCEPT !.pc = "create_model"])
    /\ UNCHANGED <<store, sched, call>>

\* get_or_create_model: create_model and its commit
CreateModel(j) ==
    /\ exec[j].pc = "create_model"
    /\ LET r == create_model(models, CurSpec(j).model_name)
       IN /\ models' = r.rows
          /\ SetExec(j, IF r.ok
                        THEN [exec[j] EXCEPT !.model_id = r.row.id,
                                             !.pc = "query_offering"]
                        ELSE [exec[j] EXCEPT !.pc = "failed"])
    /\ UNCHANGED <<providers, offerings, sched, call>>

\* add_model_to_provider: the query for the pair's row
QueryOffering(j) ==
    /\ exec[j].pc = "query_offering"
    /\ SetExec(j, [exec[j] EXCEPT
                      !.loaded = query_offering(offerings, exec[j].provider_id,
                                                exec[j].model_id),
                      !.pc = "commit_offering"])
    /\ UNCHANGED <<store, sched, call>>

\* add_model_to_provider: the assignments and db.commit()
CommitOffering(j) ==
    /\ exec[j].pc = "commit_offering"
    /\ LET r == commit_offering(offerings, exec[j].loaded, exec[j].provider_id,
                                exec[j].model_id, CurSpec(j), TRUE)
       IN /\ offerings' = r.rows
          /\ SetExec(j, IF r.ok
                        THEN [exec[j] EXCEPT
                                 !.i = @ + 1,
                                 !.provider_id = 0, !.model_id = 0, !.loaded = NoRow,
                                 !.pc = IF exec[j].i = Len(exec[j].scraped_data)
                                        THEN "done" ELSE "get_provider"]
                        ELSE [exec[j] EXCEPT !.pc = "failed"])
    /\ UNCHANGED <<providers, models, sched, call>>

\* variant: db.close() at the end of the try block, no finally clause
Finish_closes_on_success(j) ==
    /\ exec[j].pc \in {"done", "failed"}
    /\ SetExec(j, IF exec[j].pc = "failed" THEN [Idle EXCEPT !.db = "open"] ELSE Idle)
    /\ UNCHANGED <<store, sched, call>>

\* the finally clause: db.close(); the job instance ends
Finish(j) ==
    /\ exec[j].pc \in {"done", "failed"}
    /\ SetExec(j, Idle)
    /\ UNCHANGED <<store, sched, call>>

Next ==
    \/ Lifespan
    \/ Tick
    \/ ProcessJobs
    \/ \E j \in JobIds : Scrape(j)
    \/ \E j \in JobIds : ScrapeRaises(j)
    \/ \E j \in JobIds : GetProvider(j)
    \/ \E j \in JobIds : CreateProvider(j)
    \/ \E j \in JobIds : GetModel(j)
    \/ \E j \in JobIds : CreateModel(j)
    \/ \E j \in JobIds : QueryOffering(j)
    \/ \E j \in JobIds : CommitOffering(j)
    \/ \E j \in JobIds : Finish(j)

Spec == InitApp /\ [][Next]_vars

\* C2: no two Provider rows share a name, no two Model rows a model_name,
\* no two Offering rows a (provider_id, model_id) pair or an api_model_name,
\* whatever the interleaving of the jobs
C2_Uniqueness ==
    /\ \A p, q \in providers : p.name = q.name => p = q
    /\ \A m, n \in models : m.model_name = n.model_name => m = n
    /\ \A o, r \in offerings :
          (o.provider_id = r.provider_id /\ o.model_id = r.model_id) => o = r
    /\ \A o, r \in offerings : o.api_model_name = r.api_model_name => o = r

\* two jobs raced to create the same Provider and the store refused the second
C2_Witness ==
    \E j \in JobIds :
       /\ exec[j].pc = "failed"
       /\ exec[j].i = 1
       /\ exec[j].provider_id = 0
       /\ ProviderNameTaken(providers, CurSpec(j).provider_name)

\* the step is job j leaving the commit of add_model_to_provider
CommitStep(j) == exec[j].pc = "commit_offering" /\ exec'[j].pc # "commit_offering"

\* C5 as claimed: a successful upsert of an existing Offering leaves it with
\* exactly the modality set of the spec, and a failed one leaves the
\* Offerings as they were
C5_ModalityReplaceExact ==
    [][\A j \in JobIds :
          CommitStep(j) =>
             IF exec'[j].pc = "failed"
             THEN offerings' = offerings
             ELSE exec[j].loaded.id # 0 =>
                     \E o \in offerings' :
                        /\ o.id = exec[j].loaded.id
                        /\ o.modalities = Range(CurSpec(j).modalities)]_vars

\* C7: the step in which a unit's scrape() raises changes no row of the
\* store, no scheduled job and no other execution; the job ends failed
C7_ExtractionFailureIsolated ==
    [][\A j \in JobIds :
          (exec[j].pc = "scrape" /\ exec'[j].pc = "failed") =>
             /\ store' = store
             /\ startupJobs' = startupJobs
             /\ nextRun' = nextRun
             /\ \A k \in JobIds \ {j} : exec'[k] = exec[k]]_vars

\* one unit failed in extraction and the other unit's job of the same cycle
\* has committed its data
C7_Witness ==
    \E j, k \in JobIds :
       /\ j[1] = k[1]
       /\ UnitOf(j) # UnitOf(k)
       /\ exec[j].pc = "failed"
       /\ exec[j].i = 0
       /\ exec[k].pc = "done"
       /\ offerings # {}

\* C9 as claimed: at no time are two executions of run_job for one unit in
\* progress, its startup firing and its interval firings counted together
C9_OneExecutionPerUnit ==
    \A u \in Units : ~(Running(startup_job(u)) /\ Running(interval_job(u)))

\* the step is the scheduler processing its due jobs
ProcessStep == started /\ (startupJobs' # startupJobs \/ nextRun' # nextRun)

\* C10: when the scheduler processes its due jobs, every due job that has no
\* running instance of its own starts, whatever jobs of other units are in
\* progress; a waiting due job keeps the scheduler able to process it
C10_UnitsDoNotBlock ==
    [][/\ ProcessStep =>
             \A j \in DueJobs : ~Running(j) => exec'[j].pc = "scrape"
       /\ (started /\ DueJobs # {}) => ENABLED ProcessJobs]_vars

\* the interval job of U2 started and finished while the startup job of U1
\* was still in its extraction step
C10_Witness ==
    /\ exec[startup_job("U1")].pc = "scrape"
    /\ exec[interval_job("U2")].pc = "done"
    /\ offerings # {}

IngestAll(j) ==
    /\ exec[j].pc = "scrape"
    /\ \E d \in ScrapeResults(UnitOf(j)) :
          LET r == run_job_serial(Store, d)
          IN /\ providers' = r.store.providers
             /\ models' = r.store.models
             /\ offerings' = r.store.offerings
             /\ SetExec(j, [exec[j] EXCEPT
                               !.pc = IF r.failedAt = 0 THEN "done" ELSE "failed"])
    /\ UNCHANGED <<sched, call>>

NextSched ==
    \/ Lifespan
    \/ Tick
    \/ ProcessJobs
    \/ \E j \in JobIds : ScrapeRaises(j)
    \/ \E j \in JobIds : IngestAll(j)
    \/ \E j \in JobIds : Finish(j)

\* the scheduler's loop and the worker threads keep running: lifespan
\* starts the scheduler, time passes, due jobs are processed and a run that
\* has begun comes to its end
SpecSched == InitApp /\ [][NextSched]_vars /\ WF_vars(NextSched)

NextIdem ==
    \/ \E b \in IdemBatches : RunJob(b)
    \/ RunJobAgain
    \/ Return

SpecIdem == Init /\ [][NextIdem]_vars

\* C1: running run_job's ingestion of the same scrape result a second time
\* leaves the store exactly as the first run left it
C1_Idempotent ==
    call.op = "run_job_again" => Store = call.once

----------------------------------------------------------------------------
(* The read side: find_models, find_models_by_api_names and the comparison  *)
(* of compare_pricing.  Money is counted in millionths of the currency      *)
(* unit: a price per token is the Offering's cost per million tokens, a     *)
(* cost is that price times the token count.  A quotient the code computes  *)
(* in floating point is kept as the pair of its numerator and denominator.  *)

MaxCompare == 5          \* Offerings in the store of the read-side runs

Frac(n, d) == [num |-> n, den |-> d]

Min(S) == CHOOSE x \in S : \A y \in S : x <= y
Max(S) == CHOOSE x \in S : \A y \in S : x >= y

RECURSIVE SumSeq(_)
SumSeq(s) == IF s = <<>> THEN 0 ELSE Head(s) + SumSeq(Tail(s))

\* the results a query can return for ORDER BY key: every order of the
\* matching rows in which the key never decreases (rows of equal key come
\* in whatever order the store produces them)
RECURSIVE order_by(_, _)
order_by(rows, key) ==
    IF rows = {} THEN {<<>>}
    ELSE UNION {{<<r>> \o t : t \in order_by(rows \ {r}, key)} :
                   r \in {x \in rows : \A y \in rows : key[x] <= key[y]}}

\* an optional argument: left out (None), or given with a value
NotGiven == <<>>
Some(v) == <<v>>
Given(arg) == arg # <<>>
Value(arg) == arg[1]

\* variant: one of the required modalities is enough
matches_any_modality(o, min_context_window, required_modalities, supports_tools, is_active) ==
    /\ o.is_active = is_active
    /\ (Given(min_context_window) => o.context_window >= Value(min_context_window))
    /\ ((Given(required_modalities) /\ Value(required_modalities) # <<>>) =>
           \E modality \in Range(Value(required_modalities)) : modality \in o.modalities)
    /\ (Given(supports_tools) => o.supports_tools = Value(supports_tools))

\* the filters find_models puts on the query
matches(o, min_context_window, required_modalities, supports_tools, is_active) ==
    /\ o.is_active = is_active
    /\ (Given(min_context_window) => o.context_window >= Value(min_context_window))
    /\ ((Given(required_modalities) /\ Value(required_modalities) # <<>>) =>
           \A modality \in Range(Value(required_modalities)) : modality \in o.modalities)
    /\ (Given(supports_tools) => o.supports_tools = Value(supports_tools))

\* variant: the query has no ORDER BY
order_by_nothing(rows, key) == order_by(rows, [r \in rows |-> 0])

\* the average (input + output) / 2 of an Offering, counted in halves
average_cost(o) == o.input_cost_per_mtok + o.output_cost_per_mtok

\* .order_by((input_cost_per_mtok + output_cost_per_mtok) / 2).all()
order_by_average(rows, key) == order_by(rows, key)

find_models(os, min_context_window, required_modalities, supports_tools, is_active) ==
    LET rows == {o \in os : matches(o, min_context_window, required_modalities,
                                    supports_tools, is_active)}
    IN order_by_average(rows, [o \in rows |-> average_cost(o)])

\* .filter(api_model_name.in_(api_model_names), is_active == True)
\* .order_by(input_cost_per_mtok + output_cost_per_mtok).all()
find_models_by_api_names(os, api_model_names) ==
    LET rows == {o \in os : /\ o.api_model_name \in Range(api_model_names)
                            /\ o.is_active = TRUE}
    IN order_by(rows, [o \in rows |-> o.input_cost_per_mtok + o.output_cost_per_mtok])

\* variant: of the items of least key the last one in the list
leftmost_min_takes_last(keys, rest) ==
    CHOOSE i \in rest : \A j \in rest : keys[i] < keys[j] \/ (keys[i] = keys[j] /\ i >= j)

\* the item a stable ascending sort puts first: of the items of least key
\* the first one in the list
leftmost_min(keys, rest) ==
    CHOOSE i \in rest : \A j \in rest : keys[i] < keys[j] \/ (keys[i] = keys[j] /\ i <= j)

\* sorted(comparison_data, key=...), as the positions of the items in the
\* order of the result: ascending by key, items of equal key in the order
\* they have in the list
RECURSIVE sorted(_, _)
sorted(keys, rest) ==
    IF rest = {} THEN <<>>
    ELSE LET m == leftmost_min(keys, rest)
         IN <<m>> \o sorted(keys, rest \ {m})

\* variant: the rank is the position counted from zero
rank_from_zero(order, item) == (CHOOSE i \in 1..Len(order) : order[i] = item) - 1

\* for i, item in enumerate(sorted_by_...): item.rank = i + 1
rank(order, item) == CHOOSE i \in 1..Len(order) : order[i] = item

\* min(items, key=...) and max(items, key=...): the first item of the list
\* that has the least (greatest) key
min_by(keys) == CHOOSE i \in 1..Len(keys) :
                   /\ \A j \in 1..Len(keys) : keys[i] <= keys[j]
                   /\ \A j \in 1..(i - 1) : keys[j] # keys[i]
max_by(keys) == CHOOSE i \in 1..Len(keys) :
                   /\ \A j \in 1..Len(keys) : keys[i] >= keys[j]
                   /\ \A j \in 1..(i - 1) : keys[j] # keys[i]

\* s[:k] for k >= 0 and s[k:] for k < 0
slice_to(s, k) == SubSeq(s, 1, Min({k, Len(s)}))
slice_from(s, k) == SubSeq(s, Max({Len(s) + k, 0}) + 1, Len(s))

\* x < y for two quotients
Sign(n) == IF n < 0 THEN -1 ELSE 1
Abs(n) == IF n < 0 THEN -n ELSE n
FracLess(x, y) ==
    x.num * Sign(x.den) * Abs(y.den) < y.num * Sign(y.den) * Abs(x.den)

\* the first item of the list whose quotient no other item's is below
\* (above)
min_by_frac(keys) == CHOOSE i \in 1..Len(keys) :
                        /\ \A j \in 1..Len(keys) : ~FracLess(keys[j], keys[i])
                        /\ \A j \in 1..(i - 1) : FracLess(keys[i], keys[j])
max_by_frac(keys) == CHOOSE i \in 1..Len(keys) :
                        /\ \A j \in 1..Len(keys) : ~FracLess(keys[i], keys[j])
                        /\ \A j \in 1..(i - 1) : FracLess(keys[j], keys[i])

PricingCompareRequest(models_, input_tokens, output_tokens) ==
    [models |-> models_, mode |-> "sync",
     input_tokens |-> input_tokens, output_tokens |-> output_tokens]

HTTPException(status_code, detail) ==
    [exception |-> "HTTPException", status_code |-> status_code, detail |-> detail]

ZeroDivisionError == [exception |-> "ZeroDivisionError"]

\* the loop body of compare_pricing for one Offering; the efficiency score
\* 1 / (total_cost + 0.000001) is kept in millions: 1 / (total + 1) with the
\* total in millionths
\* the significand of a float keeps Mantissa bits (53 in a Python float)
Mantissa == 6

\* the least power of two s with s / d >= 2^(Mantissa - 1), for d > 0
RECURSIVE float_scale(_, _)
float_scale(d, s) == IF s >= d * 2^(Mantissa - 1) THEN s ELSE float_scale(d, 2 * s)

\* 1.0 / d for d # 0: the quotient rounded to the nearest float, ties to the
\* even significand
float_reciprocal(d) ==
    LET s == float_scale(Abs(d), 1)
        q == s \div Abs(d)
        r == s % Abs(d)
        significand == IF 2 * r > Abs(d) \/ (2 * r = Abs(d) /\ q % 2 = 1)
                       THEN q + 1 ELSE q
    IN Frac(Sign(d) * significand, s)

comparison_item(ps, provider_model, modality_str, request) ==
    LET input_cost == provider_model.input_cost_per_mtok * request.input_tokens
        output_cost == provider_model.output_cost_per_mtok * request.output_tokens
        total_cost == input_cost + output_cost
    IN [model |-> provider_model.api_model_name,
        provider |-> (CHOOSE p \in ps : p.id = provider_model.provider_id).name,
        input_token_price |-> provider_model.input_cost_per_mtok,
        output_token_price |-> provider_model.output_cost_per_mtok,
        modality |-> modality_str,
        context_window |-> provider_model.context_window,
        input_cost |-> input_cost,
        output_cost |-> output_cost,
        total_cost |-> total_cost,
        input_cost_rank |-> 0,
        output_cost_rank |-> 0,
        total_cost_rank |-> 0,
        cost_per_character |->
            Frac(total_cost, (request.input_tokens + request.output_tokens) * 4),
        efficiency_score |-> float_reciprocal(total_cost + 1)]

\* a division of the loop body has a zero divisor
divides_by_zero(provider_models, request) ==
    /\ provider_models # <<>>
    /\ \/ request.input_tokens + request.output_tokens = 0
       \/ \E i \in 1..Len(provider_models) :
             provider_models[i].input_cost_per_mtok * request.input_tokens
               + provider_models[i].output_cost_per_mtok * request.output_tokens + 1 = 0

\* the three sorted() calls and the rank assignments: the items, in the
\* order of comparison_data, with their ranks set
ranked(comparison_data) ==
    LET N == Len(comparison_data)
        sorted_by_input_cost ==
            sorted([i \in 1..N |-> comparison_data[i].input_cost], 1..N)
        sorted_by_output_cost ==
            sorted([i \in 1..N |-> comparison_data[i].output_cost], 1..N)
        sorted_by_total_cost ==
            sorted([i \in 1..N |-> comparison_data[i].total_cost], 1..N)
    IN [i \in 1..N |->
          [comparison_data[i] EXCEPT
              !.input_cost_rank = rank(sorted_by_input_cost, i),
              !.output_cost_rank = rank(sorted_by_output_cost, i),
              !.total_cost_rank = rank(sorted_by_total_cost, i)]]

\* the keys of a dict filled in the order of the list: each value once, in
\* the order of its first occurrence
RECURSIVE dict_keys(_)
dict_keys(s) ==
    IF s = <<>> THEN <<>>
    ELSE LET t == dict_keys(SubSeq(s, 1, Len(s) - 1))
         IN IF s[Len(s)] \in Range(t) THEN t ELSE Append(t, s[Len(s)])

EmptyDict == <<>>

\* sorted_by_total_cost[:len(sorted_by_total_cost)//4] if
\* len(sorted_by_total_cost) >= 4 else sorted_by_total_cost
cheapest_25_percent(sorted_by_total_cost) ==
    IF Len(sorted_by_total_cost) >= 4
    THEN slice_to(sorted_by_total_cost, Len(sorted_by_total_cost) \div 4)
    ELSE sorted_by_total_cost

\* variant: the slice is taken whatever the length
most_expensive_25_percent_sliced(sorted_by_total_cost) ==
    slice_from(sorted_by_total_cost, (-Len(sorted_by_total_cost)) \div 4)

\* sorted_by_total_cost[-len(sorted_by_total_cost)//4:] if
\* len(sorted_by_total_cost) >= 4 else sorted_by_total_cost; the minus sign
\* binds tighter than //, which rounds down
most_expensive_25_percent(sorted_by_total_cost) ==
    IF Len(sorted_by_total_cost) >= 4
    THEN slice_from(sorted_by_total_cost, (-Len(sorted_by_total_cost)) \div 4)
    ELSE sorted_by_total_cost

\* ComparisonSummary of a non-empty comparison_data (ranks set)
comparison_summary(comparison_data, request) ==
    LET N == Len(comparison_data)
        I == 1..N
        total_cost == [i \in I |-> comparison_data[i].total_cost]
        order == sorted(total_cost, I)
        sorted_by_total_cost == [k \in I |-> comparison_data[order[k]]]
        min_input_price == Min({comparison_data[i].input_token_price : i \in I})
        max_input_price == Max({comparison_data[i].input_token_price : i \in I})
        min_output_price == Min({comparison_data[i].output_token_price : i \in I})
        max_output_price == Max({comparison_data[i].output_token_price : i \in I})
        min_total_cost == Min(Range(total_cost))
        max_total_cost == Max(Range(total_cost))
        avg_total_cost == Frac(SumSeq(total_cost), N)
        cheapest_model == comparison_data[min_by(total_cost)]
        most_expensive_model == comparison_data[max_by(total_cost)]
        most_efficient_model ==
            comparison_data[max_by_frac([i \in I |-> comparison_data[i].efficiency_score])]
        names == dict_keys([i \in I |-> comparison_data[i].provider])
        provider_counts ==
            [n \in Range(names) |->
                Cardinality({i \in I : comparison_data[i].provider = n})]
        provider_avg_costs ==
            [n \in Range(names) |->
                Frac(SumSeq([i \in I |-> IF comparison_data[i].provider = n
                                         THEN total_cost[i] ELSE 0]),
                     provider_counts[n])]
        cheapest_provider ==
            names[min_by_frac([k \in 1..Len(names) |-> provider_avg_costs[names[k]]])]
    IN [total_models |-> N,
        mode |-> request.mode,
        scenario |-> [input_tokens |-> request.input_tokens,
                      output_tokens |-> request.output_tokens],
        price_ranges |->
           [input_token_price |->
               [min |-> min_input_price, max |-> max_input_price,
                range |-> max_input_price - min_input_price],
            output_token_price |->
               [min |-> min_output_price, max |-> max_output_price,
                range |-> max_output_price - min_output_price]],
        recommendations |->
           [cheapest_overall |->
               [model |-> cheapest_model.model, provider |-> cheapest_model.provider,
                total_cost |-> cheapest_model.total_cost],
            most_efficient |->
               [model |-> most_efficient_model.model,
                provider |-> most_efficient_model.provider,
                efficiency_score |-> most_efficient_model.efficiency_score],
            best_input_cost |->
               comparison_data[min_by([i \in I |-> comparison_data[i].input_cost])].model,
            best_output_cost |->
               comparison_data[min_by([i \in I |-> comparison_data[i].output_cost])].model,
            cost_savings |->
               [vs_most_expensive |->
                   most_expensive_model.total_cost - cheapest_model.total_cost,
                vs_average |->
                   Frac(SumSeq(total_cost) - N * cheapest_model.total_cost, N)]],
        cost_analysis |->
           [total_cost_range |->
               [min |-> min_total_cost, max |-> max_total_cost,
                average |-> avg_total_cost,
                spread |-> max_total_cost - min_total_cost],
            cost_distribution |->
               [cheapest_25_percent |-> cheapest_25_percent(sorted_by_total_cost),
                most_expensive_25_percent |->
                   most_expensive_25_percent(sorted_by_total_cost)]],
        provider_insights |->
           [provider_distribution |-> provider_counts,
            cheapest_provider |->
               [name |-> cheapest_provider,
                average_cost |-> provider_avg_costs[cheapest_provider]],
            provider_cost_comparison |-> provider_avg_costs]]

\* ComparisonSummary of the else branch
empty_summary(request) ==
    [total_models |-> 0,
     mode |-> request.mode,
     scenario |-> [input_tokens |-> request.input_tokens,
                   output_tokens |-> request.output_tokens],
     price_ranges |-> EmptyDict,
     recommendations |-> EmptyDict,
     cost_analysis |-> EmptyDict,
     provider_insights |-> EmptyDict]

ApiResponse(data) == [status |-> "success", data |-> data]

\* compare_pricing from the loop on: what it returns or raises for the
\* rows the query gave; modality_strs[i] is the first modality the store
\* lists for row i
comparison(ps, provider_models, modality_strs, request) ==
    IF divides_by_zero(provider_models, request) THEN ZeroDivisionError
    ELSE
      LET comparison_data ==
              ranked([i \in 1..Len(provider_models) |->
                         comparison_item(ps, provider_models[i], modality_strs[i],
                                         request)])
      IN ApiResponse(
            [models |-> comparison_data,
             comparison_summary |->
                IF comparison_data # <<>>
                THEN comparison_summary(comparison_data, request)
                ELSE empty_summary(request)])

\* variant: no check of the query's result
compare_pricing_unguarded(ps, provider_models, modality_strs, request) ==
    comparison(ps, provider_models, modality_strs, request)

compare_pricing(ps, provider_models, modality_strs, request) ==
    IF provider_models = <<>>
    THEN HTTPException(404, "No models found with the specified names")
    ELSE comparison(ps, provider_models, modality_strs, request)

\* what the client receives: the returned body with status 200, or the
\* error response made from the exception
Raised(outcome) == "exception" \in DOMAIN outcome

global_exception_handler(exc) ==
    IF exc.exception = "HTTPException"
    THEN [status_code |-> exc.status_code, status |-> "error", message |-> exc.detail]
    ELSE [status_code |-> 500, status |-> "error",
          message |-> "An internal server error occurred"]

----------------------------------------------------------------------------
(* The store of the read-side runs: MaxCompare Offerings of two Providers,  *)
(* each active or not, each at its lower or its higher price                *)

ApiNames == <<"a", "b", "c", "d", "e", "f", "g">>
CatalogueModelNames == <<"M1", "M2", "M3", "M4", "M5", "M6", "M7">>

\* Offering i has price level p = MaxCompare + 1 - i, the later-created
\* Offerings being the cheaper ones: its lower price has input + output =
\* 2p + 1, its higher price 2p + 3, the sum of the lower price of level p + 1
\* with input and output the other way round
PriceLevel(i) == MaxCompare + 1 - i

CatalogueRow(i, higher, active) ==
    [id |-> i, provider_id |-> (i % 2) + 1, model_id |-> i,
     api_model_name |-> ApiNames[i],
     context_window |-> IF i % 3 = 0 THEN 4000 ELSE IF i % 3 = 1 THEN 8000 ELSE 16000,
     input_cost_per_mtok |-> IF higher THEN PriceLevel(i) + 2 ELSE PriceLevel(i),
     output_cost_per_mtok |-> PriceLevel(i) + 1,
     supports_tools |-> (i % 2 = 0),
     is_active |-> active,
     modalities |-> IF i = 2 THEN {"text", "image"}
                    ELSE IF i % 3 = 0 THEN {"image"}
                    ELSE IF i = 5 THEN {"audio"} ELSE {"text"}]

InitRead ==
    /\ providers = {[id |-> 1, name |-> "P1", website |-> "p1.com", api_key_name |-> None],
                    [id |-> 2, name |-> "P2", website |-> "p2.com", api_key_name |-> None]}
    /\ models = {[id |-> i, model_name |-> CatalogueModelNames[i]] : i \in 1..MaxCompare}
    /\ \E higher \in [1..MaxCompare -> BOOLEAN] :
          \E active \in [1..MaxCompare -> BOOLEAN] :
             offerings = {CatalogueRow(i, higher[i], active[i]) : i \in 1..MaxCompare}
    /\ SchedInit
    /\ run_on_startup = TRUE
    /\ call = NoCall

\* the requests made: no name, an unknown name, the first three names,
\* all names; the default usage and five others
RequestModels ==
    {<<>>, <<"zz">>, SubSeq(ApiNames, 1, 3), SubSeq(ApiNames, 1, MaxCompare)}
Usages == {<<1000, 1000>>, <<2000, 1000>>, <<0, 1000>>, <<0, 0>>, <<1000, -2000>>,
           <<1001, 1000>>}
Requests == {PricingCompareRequest(m, u[1], u[2]) : m \in RequestModels, u \in Usages}

\* provider_model.modalities[0].value if provider_model.modalities else
\* "text", for each row: the store lists a row's modalities in no set order
RECURSIVE first_modalities(_)
first_modalities(provider_models) ==
    IF provider_models = <<>> THEN {<<>>}
    ELSE {<<m>> \o t :
             m \in (IF Head(provider_models).modalities = {} THEN {"text"}
                    ELSE Head(provider_models).modalities),
             t \in first_modalities(Tail(provider_models))}

\* POST /pricing/compare
ComparePricing(request) ==
    /\ call.op = "none"
    /\ \E provider_models \in find_models_by_api_names(offerings, request.models) :
          \E modality_strs \in first_modalities(provider_models) :
             LET outcome == compare_pricing(providers, provider_models,
                                            modality_strs, request)
             IN call' = [op |-> "compare_pricing",
                         request |-> request,
                         provider_models |-> provider_models,
                         response |->
                            IF Raised(outcome) THEN global_exception_handler(outcome)
                            ELSE [status_code |-> 200, status |-> outcome.status,
                                  data |-> outcome.data]]
    /\ UNCHANGED <<store, sched, exec>>

\* the arguments find_models is called with
MinContextWindows == {NotGiven, Some(10000)}
RequiredModalities ==
    {NotGiven, Some(<<>>), Some(<<"image">>), Some(<<"text", "image">>)}
SupportsTools == {NotGiven, Some(TRUE), Some(FALSE)}

\* repository_provider_model.find_models(db, ...)
FindModels(min_context_window, required_modalities, supports_tools, is_active) ==
    /\ call.op = "none"
    /\ \E results \in find_models(offerings, min_context_window, required_modalities,
                                   supports_tools, is_active) :
          call' = [op |-> "find_models",
                   min_context_window |-> min_context_window,
                   required_modalities |-> required_modalities,
                   supports_tools |-> supports_tools,
                   is_active |-> is_active,
                   results |-> results]
    /\ UNCHANGED <<store, sched, exec>>

NextRead ==
    \/ \E request \in Requests : ComparePricing(request)
    \/ \E min_context_window \in MinContextWindows :
          \E required_modalities \in RequiredModalities :
             \E supports_tools \in SupportsTools :
                \E is_active \in BOOLEAN :
                   FindModels(min_context_window, required_modalities,
                              supports_tools, is_active)
    \/ Return

SpecRead == InitRead /\ [][NextRead]_vars

\* the last call was a comparison answered with a report
Reported == call.op = "compare_pricing" /\ call.response.status_code = 200

ReportModels == call.response.data.models
ReportSummary == call.response.data.comparison_summary

\* the ranks of one dimension are a permutation of 1..N, rank 1 is held by
\* an item of least cost and rank N by one of greatest cost
RanksCorrect(items, cost, rank_of) ==
    LET I == 1..Len(items)
    IN /\ \A i \in I : rank_of[i] \in I
       /\ \A i, j \in I : rank_of[i] = rank_of[j] => i = j
       /\ \A i \in I : rank_of[i] = 1 => \A j \in I : cost[i] <= cost[j]
       /\ \A i \in I : rank_of[i] = Len(items) => \A j \in I : cost[i] >= cost[j]

\* C13: in every comparison report the models are the N >= 1 Offerings the
\* query returned, and input_cost_rank, output_cost_rank and total_cost_rank
\* are each a permutation of 1..N with rank 1 on a minimum and rank N on a
\* maximum of that cost
C13_RanksArePermutations ==
    Reported =>
       LET items == ReportModels
           I == 1..Len(items)
       IN /\ Len(items) = Len(call.provider_models)
          /\ Len(items) >= 1
          /\ \A i \in I : items[i].model = call.provider_models[i].api_model_name
          /\ RanksCorrect(items, [i \in I |-> items[i].input_cost],
                          [i \in I |-> items[i].input_cost_rank])
          /\ RanksCorrect(items, [i \in I |-> items[i].output_cost],
                          [i \in I |-> items[i].output_cost_rank])
          /\ RanksCorrect(items, [i \in I |-> items[i].total_cost],
                          [i \in I |-> items[i].total_cost_rank])

\* a report over all Offerings of the store in which the cheapest in total
\* is not the cheapest in input cost and two items have the same total cost
C13_Witness ==
    /\ Reported
    /\ Len(ReportModels) = MaxCompare
    /\ \E i \in 1..MaxCompare :
          /\ ReportModels[i].total_cost_rank = 1
          /\ ReportModels[i].input_cost_rank # 1
    /\ \E i, j \in 1..MaxCompare :
          i # j /\ ReportModels[i].total_cost = ReportModels[j].total_cost

\* of two items of equal cost the one earlier in the list has the smaller rank
TiesKeepOrder(items, cost, rank_of) ==
    \A i, j \in 1..Len(items) :
       (i < j /\ cost[i] = cost[j]) => rank_of[i] < rank_of[j]

\* C14: in every report, of two items with equal cost in a dimension the one
\* that find_models_by_api_names returned earlier has the smaller rank in
\* that dimension
C14_TiesByInputOrder ==
    Reported =>
       LET items == ReportModels
           I == 1..Len(items)
       IN /\ \A i \in I : items[i].model = call.provider_models[i].api_model_name
          /\ TiesKeepOrder(items, [i \in I |-> items[i].input_cost],
                           [i \in I |-> items[i].input_cost_rank])
          /\ TiesKeepOrder(items, [i \in I |-> items[i].output_cost],
                           [i \in I |-> items[i].output_cost_rank])
          /\ TiesKeepOrder(items, [i \in I |-> items[i].total_cost],
                           [i \in I |-> items[i].total_cost_rank])

\* the query returned two Offerings of equal price sum one after the other;
\* under the default usage they tie in total cost and the earlier in the
\* list has the smaller total_cost_rank, while their input costs differ and
\* order them the other way
C14_Witness ==
    /\ Reported
    /\ call.request.input_tokens = 1000
    /\ call.request.output_tokens = 1000
    /\ \E i, j \in 1..Len(ReportModels) :
          /\ i < j
          /\ ReportModels[i].total_cost = ReportModels[j].total_cost
          /\ ReportModels[i].total_cost_rank < ReportModels[j].total_cost_rank
          /\ ReportModels[i].input_cost_rank > ReportModels[j].input_cost_rank

CostDistribution == ReportSummary.cost_analysis.cost_distribution

\* the list holds every item of the report once, in ascending total cost
IsFullSetSorted(list) ==
    /\ Len(list) = Len(ReportModels)
    /\ \A i \in 1..Len(ReportModels) : \E k \in 1..Len(list) : list[k] = ReportModels[i]
    /\ \A k \in 1..Len(list) : list[k].total_cost_rank = k
    /\ \A k \in 1..(Len(list) - 1) : list[k].total_cost <= list[k + 1].total_cost

\* C15: in every report over 1 <= N < 4 Offerings, cheapest_25_percent and
\* most_expensive_25_percent are both the list of all N items in ascending
\* total cost
C15_QuartileSmallN ==
    (Reported /\ Len(ReportModels) < 4) =>
       /\ Len(ReportModels) >= 1
       /\ IsFullSetSorted(CostDistribution.cheapest_25_percent)
       /\ IsFullSetSorted(CostDistribution.most_expensive_25_percent)
       /\ CostDistribution.cheapest_25_percent = CostDistribution.most_expensive_25_percent

\* a report over three Offerings that the query did not return in the order
\* of their total cost
C15_Witness ==
    /\ Reported
    /\ Len(ReportModels) = 3
    /\ ReportModels[1].total_cost_rank = 3
    /\ Len(CostDistribution.most_expensive_25_percent) = 3

\* C16 as claimed: in every report over N >= 4 Offerings, cheapest_25_percent
\* is the floor(N/4) items of lowest total cost and most_expensive_25_percent
\* the floor(N/4) items of highest total cost, so the two have one length
C16_QuartileSize ==
    (Reported /\ Len(ReportModels) >= 4) =>
       LET N == Len(ReportModels)
           cheapest == CostDistribution.cheapest_25_percent
           most_expensive == CostDistribution.most_expensive_25_percent
       IN /\ Len(cheapest) = N \div 4
          /\ Len(most_expensive) = N \div 4
          /\ \A k \in 1..Len(cheapest) : cheapest[k].total_cost_rank = k
          /\ \A k \in 1..Len(most_expensive) :
                most_expensive[k].total_cost_rank = N - Len(most_expensive) + k

\* the last call was a comparison for which the query returned no row
ComparedNothing == call.op = "compare_pricing" /\ call.provider_models = <<>>

SomeNameResolves ==
    \E o \in offerings :
       o.is_active /\ o.api_model_name \in Range(call.request.models)

\* C18 as claimed: a comparison request is answered with the 404 failure and
\* its description exactly when no requested name is the api name of an
\* active Offering, and with a report over the resolved Offerings whenever
\* at least one name resolves
C18_NotFoundIffNoneResolves ==
    call.op = "compare_pricing" =>
       /\ call.response.status_code = 404 <=> ~SomeNameResolves
       /\ call.response.status_code = 404 =>
             call.response.message = "No models found with the specified names"
       /\ SomeNameResolves =>
             /\ call.response.status_code = 200
             /\ Len(ReportModels) >= 1
             /\ \A i \in 1..Len(ReportModels) :
                   \E o \in offerings : /\ o.is_active
                                        /\ o.api_model_name = ReportModels[i].model
                                        /\ o.api_model_name \in Range(call.request.models)

\* the Offering passes every filter the call supplied
PassesFilters(o) ==
    /\ o.is_active = call.is_active
    /\ Given(call.min_context_window) => o.context_window >= Value(call.min_context_window)
    /\ Given(call.required_modalities) =>
          Range(Value(call.required_modalities)) \subseteq o.modalities
    /\ Given(call.supports_tools) => o.supports_tools = Value(call.supports_tools)

\* C19: find_models returns, each once, exactly the Offerings of the store
\* whose is_active equals the flag, whose context_window is at least
\* min_context_window, whose modality set holds every required modality and
\* whose supports_tools equals the flag, an argument left out restricting
\* nothing
C19_FindFilters ==
    call.op = "find_models" =>
       /\ Range(call.results) = {o \in offerings : PassesFilters(o)}
       /\ Len(call.results) = Cardinality(Range(call.results))

\* all four filters were given and the result is one Offering, while the
\* store holds inactive Offerings and active ones that fail the context
\* window or have one of the two required modalities only
C19_Witness ==
    /\ call.op = "find_models"
    /\ call.is_active
    /\ Given(call.min_context_window)
    /\ Given(call.required_modalities)
    /\ Len(Value(call.required_modalities)) = 2
    /\ Given(call.supports_tools)
    /\ Len(call.results) = 1
    /\ \E o \in offerings : o.is_active /\ o.context_window < Value(call.min_context_window)
    /\ \E o \in offerings :
          /\ o.is_active
          /\ o.modalities \cap Range(Value(call.required_modalities)) # {}
          /\ ~(Range(Value(call.required_modalities)) \subseteq o.modalities)
    /\ \E o \in offerings : ~o.is_active

\* C20: whatever the filters, the results of find_models are in ascending
\* order of the average of input and output cost
C20_FindOrdering ==
    call.op = "find_models" =>
       \A k \in 1..(Len(call.results) - 1) :
          average_cost(call.results[k]) <= average_cost(call.results[k + 1])

\* a filtered call returned three Offerings or more, the later-created and
\* cheaper ones first, all of different average cost
C20_Witness ==
    /\ call.op = "find_models"
    /\ Given(call.supports_tools)
    /\ Len(call.results) >= 3
    /\ \A k \in 1..(Len(call.results) - 1) :
          /\ call.results[k].id > call.results[k + 1].id
          /\ average_cost(call.results[k]) < average_cost(call.results[k + 1])

----------------------------------------------------------------------------
(* Discovery: discover_scrapers imports each module of the scrapers package *)
(* and collects the scraper classes among its members                       *)

MaxModules == 3          \* modules in the scrapers package

\* how the import of a module ends: it loads, it raises an Exception (a
\* missing file, a missing dependency), or it raises SystemExit (exit() in
\* the module body, as local_table_scraper calls it when its page has no
\* table), which is no Exception
LoadOutcomes == {"loaded", "Exception", "SystemExit"}

ScraperNames == <<"S1", "S2", "S3", "S4", "S5">>

\* the members inspect.getmembers lists for module i: the names it imports
\* from scrapers.base, and its own scraper class if it defines one
Members(i, defines_scraper) ==
    IF defines_scraper
    THEN <<"BaseProviderModelScraper", "ProviderModelSpec", ScraperNames[i]>>
    ELSE <<"BaseProviderModelScraper", "ProviderModelSpec">>

isclass(member_obj) == TRUE
issubclass(member_obj) ==
    member_obj = "BaseProviderModelScraper" \/ member_obj \in Range(ScraperNames)

\* the if of the inner loop
IsScraperClass(member_obj) ==
    /\ isclass(member_obj)
    /\ issubclass(member_obj)
    /\ member_obj # "BaseProviderModelScraper"

\* the failure of the import is not caught by "except Exception"
escapes(load) == load = "SystemExit"

\* discover_scrapers over the modules pkgutil.iter_modules yields, from
\* module i on: the list returned, or the exception that leaves the function
RECURSIVE discover_from(_, _, _)
discover_from(modules, i, discovered_scrapers) ==
    IF i > Len(modules)
    THEN [raised |-> FALSE, discovered_scrapers |-> discovered_scrapers]
    ELSE IF modules[i].load = "loaded"
    THEN discover_from(modules, i + 1,
             discovered_scrapers \o SelectSeq(modules[i].members, IsScraperClass))
    ELSE IF escapes(modules[i].load)
    THEN [raised |-> TRUE, discovered_scrapers |-> <<>>]
    ELSE discover_from(modules, i + 1, discovered_scrapers)

discover_scrapers(modules) == discover_from(modules, 1, <<>>)

\* the packages discovery runs on: MaxModules modules, each loading or
\* failing, each with or without a scraper class of its own
Packages ==
    {[i \in 1..MaxModules |-> [load |-> load[i], members |-> Members(i, defines[i])]] :
        load \in [1..MaxModules -> LoadOutcomes],
        defines \in [1..MaxModules -> BOOLEAN]}

\* schedule_jobs calls discover_scrapers()
DiscoverScrapers(modules) ==
    /\ call.op = "none"
    /\ call' = [op |-> "discover_scrapers", modules |-> modules,
                result |-> discover_scrapers(modules)]
    /\ UNCHANGED <<store, sched, exec>>

NextDiscover ==
    \/ \E modules \in Packages : DiscoverScrapers(modules)
    \/ Return

SpecDiscover == Init /\ [][NextDiscover]_vars

\* the scraper classes of the modules that load
LoadableScrapers(modules) ==
    UNION {Range(modules[i].members) :
              i \in {j \in 1..Len(modules) : modules[j].load = "loaded"}}
       \cap Range(ScraperNames)

\* C21 as claimed: whatever modules fail to load, discover_scrapers returns,
\* and returns exactly the scraper classes of the modules that load, never
\* the base class
C21_DiscoveryRobust ==
    call.op = "discover_scrapers" =>
       /\ ~call.result.raised
       /\ Range(call.result.discovered_scrapers) = LoadableScrapers(call.modules)
       /\ "BaseProviderModelScraper" \notin Range(call.result.discovered_scrapers)

----------------------------------------------------------------------------
(* Claims on the store under the running application *)

\* C22: no step of the application removes the id of a Provider, Model or
\* Offering row, and in every state each Offering's provider_id and model_id
\* are the ids of an existing Provider row and an existing Model row
C22_NothingDeleted ==
    /\ [](\A o \in offerings :
             /\ o.provider_id \in Ids(providers)
             /\ o.model_id \in Ids(models))
    /\ [][/\ Ids(providers) \subseteq Ids(providers')
          /\ Ids(models) \subseteq Ids(models')
          /\ Ids(offerings) \subseteq Ids(offerings')]_vars

\* two Offerings exist and a job is about to commit an update of the older
\* one, loaded with values that differ from the spec it ingests
C22_Witness ==
    \E j \in JobIds :
       /\ exec[j].pc = "commit_offering"
       /\ exec[j].loaded.id = 1
       /\ exec[j].loaded.api_model_name # CurSpec(j).api_model_name
       /\ Cardinality(offerings) = 2

\* the Offering of the pair job j is about to write, as the store holds it
PairRow(os, j) == query_offering(os, exec[j].provider_id, exec[j].model_id)

\* job j is about to commit an Offering that a job of another unit has
\* written since j's query, to the values of that unit's spec; nothing but
\* the race stands in the way of j's write
RacedOffering(j) ==
    /\ exec[j].pc = "commit_offering"
    /\ PairRow(offerings, j) # exec[j].loaded
    /\ \E u \in Units \ {UnitOf(j)} : \E d \in ScrapeResults(u) : \E k \in 1..Len(d) :
          PairRow(offerings, j) =
              ExpectedOffering(PairRow(offerings, j).id, exec[j].provider_id,
                               exec[j].model_id, d[k], TRUE)
    /\ ~ApiNameTaken(offerings, CurSpec(j).api_model_name, PairRow(offerings, j).id)
    /\ ~HasDuplicates(CurSpec(j).modalities)

\* C23 as claimed: when a job commits an Offering that a job of another unit
\* wrote since its query, the commit does not fail and the row then holds
\* exactly the fields of the committing job's spec
C23_LastWriteWins ==
    [][\A j \in JobIds :
          (RacedOffering(j) /\ CommitStep(j)) =>
             /\ exec'[j].pc # "failed"
             /\ PairRow(offerings', j) =
                   ExpectedOffering(PairRow(offerings', j).id, exec[j].provider_id,
                                    exec[j].model_id, CurSpec(j), TRUE)]_vars

----------------------------------------------------------------------------
(* Claims on a batch that fails midway, jobs run one at a time *)

\* the k-th spec of the batch is the first whose ingestion fails
FirstFailure(st, scraped_data, k) ==
    /\ k \in 1..Len(scraped_data)
    /\ IngestFrom(st, SubSeq(scraped_data, 1, k - 1), 1).failedAt = 0
    /\ IngestFrom(IngestFrom(st, SubSeq(scraped_data, 1, k - 1), 1).store,
                  <<scraped_data[k]>>, 1).failedAt # 0

\* the Offering that spec wrote is in the store exactly as the spec gives it
HoldsSpec(spec) ==
    \E p \in providers, m \in models, o \in offerings :
       /\ p.name = spec.provider_name
       /\ m.model_name = spec.model_name
       /\ o = ExpectedOffering(o.id, p.id, m.id, spec, TRUE)

SamePair(s, t) == s.provider_name = t.provider_name /\ s.model_name = t.model_name

\* C24: when the k-th spec of a batch is the first to fail, the job reports
\* the failure at k, every spec before k that no later spec before k
\* overwrote has its Offering in the store with exactly its values, and the
\* store is what the first k specs alone leave: no later spec is applied
C24_CleanPrefix ==
    call.op = "run_job" =>
       \A k \in 1..Len(call.scraped_data) :
          FirstFailure(call.before, call.scraped_data, k) =>
             /\ call.failedAt = k
             /\ \A h \in 1..(k - 1) :
                   (\A g \in (h + 1)..(k - 1) :
                       ~SamePair(call.scraped_data[g], call.scraped_data[h]))
                     => HoldsSpec(call.scraped_data[h])
             /\ Store = IngestFrom(call.before, SubSeq(call.scraped_data, 1, k), 1).store

\* a batch whose first spec overwrote an existing Offering and whose second
\* spec failed on an api_model_name held by that Offering
C24_Witness ==
    /\ call.op = "run_job"
    /\ Len(call.scraped_data) = 2
    /\ FirstFailure(call.before, call.scraped_data, 2)
    /\ ~SamePair(call.scraped_data[1], call.scraped_data[2])
    /\ offerings # call.before.offerings
    /\ call.before.offerings # {}
    /\ ApiNameTaken(offerings, call.scraped_data[2].api_model_name, 0)
    /\ ~HasDuplicates(call.scraped_data[2].modalities)

\* C25 as claimed: a spec whose Offering upsert fails leaves nothing in the
\* store: after a job that failed on its k-th spec the Provider, Model and
\* Offering rows are those that specs 1..k-1 left
C25_PerSpecAtomic ==
    call.op = "run_job" =>
       \A k \in 1..Len(call.scraped_data) :
          FirstFailure(call.before, call.scraped_data, k) =>
             Store = IngestFrom(call.before, SubSeq(call.scraped_data, 1, k - 1), 1).store

----------------------------------------------------------------------------
(* Claims on parallel jobs creating the same name *)

\* C26 as claimed: with only the interval jobs scheduled, so that jobs in
\* progress together belong to different units, a job that found no row for
\* a Provider or Model name never fails in creating it, whatever the other
\* job did since the lookup, and no name ever has two rows
C26_ParallelConvergence ==
    /\ [](/\ \A p, q \in providers : p.name = q.name => p = q
          /\ \A m, n \in models : m.model_name = n.model_name => m = n)
    /\ [][\A j \in JobIds :
             (~run_on_startup /\ exec[j].pc \in {"create_provider", "create_model"})
                => exec'[j].pc # "failed"]_vars

----------------------------------------------------------------------------
(* Claims on the active flag *)

\* the number of specs of the batch that the job applied
Applied(c) == IF c.failedAt = 0 THEN Len(c.scraped_data)
              ELSE IF c.failedAt = -1 THEN 0 ELSE c.failedAt - 1

\* the Offering of the pair that spec names, NoRow if there is none
OfferingOf(st, spec) ==
    LET p == get_provider_by_name(st.providers, spec.provider_name)
        m == get_model_by_name(st.models, spec.model_name)
    IN IF p.id = 0 \/ m.id = 0 THEN NoRow
       ELSE query_offering(st.offerings, p.id, m.id)

\* C27: after a run_job execution, the Offering of every spec it applied,
\* inserted or updated, is active, whatever its flag was before
C27_IngestionActivates ==
    call.op = "run_job" =>
       \A h \in 1..Applied(call) :
          /\ OfferingOf(Store, call.scraped_data[h]).id # 0
          /\ OfferingOf(Store, call.scraped_data[h]).is_active

\* a job re-ingested a pair whose Offering was inactive
C27_Witness ==
    /\ call.op = "run_job"
    /\ call.failedAt = 0
    /\ \E h \in 1..Len(call.scraped_data) :
          /\ OfferingOf(call.before, call.scraped_data[h]).id # 0
          /\ ~OfferingOf(call.before, call.scraped_data[h]).is_active
          /\ OfferingOf(Store, call.scraped_data[h]).is_active

----------------------------------------------------------------------------
(* Claims on the store session of a job *)

\* C28: a job holds an open session exactly while it executes; the session
\* is opened by the step that enters run_job and by no other, and the step
\* that ends the job, after success or after a failure in extraction or in
\* ingestion, leaves the job without a session
C28_SessionLifecycle ==
    /\ [](\A j \in JobIds :
             /\ Running(j) => exec[j].db = "open"
             /\ ~Running(j) => exec[j].db = "none")
    /\ [][\A j \in JobIds :
             /\ (exec[j].db # "open" /\ exec'[j].db = "open")
                   => (exec[j].pc = "idle" /\ exec'[j].pc = "scrape")
             /\ (Running(j) /\ exec'[j].db = "open") => Running(j)'
             /\ (exec[j].pc \in {"done", "failed"} /\ exec'[j] # exec[j])
                   => exec'[j].db = "none"]_vars

\* a job that failed in ingestion, with rows of its unit's Provider written,
\* is about to close its session, while another job that ran to its end
\* holds none
C28_Witness ==
    \E j, k \in JobIds :
       /\ exec[j].pc = "failed"
       /\ exec[j].db = "open"
       /\ \E o \in offerings : o.api_model_name = "a"
       /\ UnitOf(j) = "U2"
       /\ UnitOf(k) = "U1"
       /\ exec[k] = Idle
       /\ now >= 1

----------------------------------------------------------------------------
(* Claims on the recommendations of a comparison report *)

\* C29 as claimed: in every report for a usage with non-negative token
\* counts, cheapest_overall and most_efficient name the same Offering, and
\* that Offering holds total_cost_rank 1
C29_CheapestIsMostEfficient ==
    (/\ Reported
     /\ call.request.input_tokens >= 0
     /\ call.request.output_tokens >= 0) =>
        /\ ReportSummary.recommendations.cheapest_overall.model
              = ReportSummary.recommendations.most_efficient.model
        /\ \E i \in 1..Len(ReportModels) :
              /\ ReportModels[i].model = ReportSummary.recommendations.cheapest_overall.model
              /\ ReportModels[i].total_cost_rank = 1

\* C30 as claimed: a comparison naming at least one active Offering is
\* answered with a report for every usage with non-negative token counts,
\* and for the usage of no token at all every cost of the report (input,
\* output, total, per character) is 0
C30_ComparisonTotal ==
    (/\ call.op = "compare_pricing"
     /\ SomeNameResolves
     /\ call.request.input_tokens >= 0
     /\ call.request.output_tokens >= 0) =>
        /\ call.response.status_code = 200
        /\ (call.request.input_tokens = 0 /\ call.request.output_tokens = 0) =>
              \A i \in 1..Len(ReportModels) :
                 /\ ReportModels[i].input_cost = 0
                 /\ ReportModels[i].output_cost = 0
                 /\ ReportModels[i].total_cost = 0
                 /\ ReportModels[i].cost_per_character.num = 0

====
